---- MODULE Spec2Model ----
(***************************************************************************)
(* Model of the LinkedIn job automator: one run of main() driving one      *)
(* browser session through driver initialisation, authentication (cookie   *)
(* replay or credential login), job search, the Easy Apply filter, link    *)
(* extraction and the cleanup in the finally block.                        *)
(*                                                                         *)
(* ops and out are observation variables: the browser operations issued    *)
(* and the messages printed by the handler that ran last.                  *)
(***************************************************************************)
EXTENDS Integers, Sequences, FiniteSets, TLC

\* ---------------------------------------------------------------- bounds
MaxCookies == 3     \* records in the session file
MaxCards == 2       \* result cards on the whole site
MaxPages == 2       \* result pages of the site

\* ------------------------------------------------------- strings as text
\* Strings whose characters the code inspects (lower(), "in") are modelled
\* as sequences of characters.
Txt_cookie == <<"c","o","o","k","i","e">>
Txt_Cookie == <<"C","o","o","k","i","e">>
Txt_credentials == <<"c","r","e","d","e","n","t","i","a","l","s">>
Txt_CREDENTIALS == <<"C","R","E","D","E","N","T","I","A","L","S">>
Txt_oauth == <<"o","a","u","t","h">>
Txt_empty == <<>>

Marker_login == <<"/","l","o","g","i","n">>
Marker_authwall == <<"/","a","u","t","h","w","a","l","l">>
Marker_checkpoint == <<"/","c","h","e","c","k","p","o","i","n","t">>

Url_blank == <<"d","a","t","a",":",",">>
Url_root == <<"/">>
Url_login == <<"/","l","o","g","i","n">>
Url_login_submit == <<"/","u","a","s","/","l","o","g","i","n","-","s","u","b","m","i","t">>
Url_feed == <<"/","f","e","e","d","/">>
Url_authwall == <<"/","a","u","t","h","w","a","l","l","?","t","=","1">>
Url_checkpoint == <<"/","c","h","e","c","k","p","o","i","n","t","/","l","g">>
Url_jobs == <<"/","j","o","b","s">>

\* Locations the site can put the browser at after a navigation or a submit.
Locations == {Url_login, Url_login_submit, Url_feed, Url_authwall, Url_checkpoint}

\* Python's `marker in text`.
Contains(text, marker) ==
    \E i \in 0..(Len(text) - Len(marker)) :
        SubSeq(text, i + 1, i + Len(marker)) = marker

LowerChar(c) ==
    CASE c = "A" -> "a" [] c = "C" -> "c" [] c = "D" -> "d" [] c = "E" -> "e"
      [] c = "I" -> "i" [] c = "L" -> "l" [] c = "N" -> "n" [] c = "R" -> "r"
      [] c = "S" -> "s" [] c = "T" -> "t" [] OTHER -> c

\* str.lower()
Lower(text) == [i \in 1..Len(text) |-> LowerChar(text[i])]

\* ------------------------------------------------------------ data model
Unset == <<"<unset>">>      \* environment variable not set
Missing == "<missing>"      \* key absent from a cookie record

AuthEnvValues == {Unset, Txt_Cookie, Txt_credentials, Txt_CREDENTIALS, Txt_oauth, Txt_empty}

CookieRecords ==
    [name : {Missing, "li_at"}, value : {Missing, "v"},
     domain : {Missing, ".example.com"}]

SeqsUpTo(S, n) == UNION {[1..k -> S] : k \in 0..n}

\* What a parsable session file can hold.
CookieFiles == SeqsUpTo(CookieRecords, MaxCookies)

Hrefs == {"/jobs/view/1", "/jobs/view/2"}
\* badge: the result of the badge lookup on the card ("stale" = the lookup
\* throws); title: the card's title link (unlocatable, without href, or an href).
Cards ==
    [badge : {"found"}, title : {"unlocatable", "nohref"} \cup Hrefs]
      \cup [badge : {"none", "stale"}, title : {"/jobs/view/1"}]

\* Sites: 1..MaxPages result pages holding at most MaxCards cards in all.
RECURSIVE SitesOf(_, _)
SitesOf(n, budget) ==
    IF n = 0 THEN {<<>>}
    ELSE UNION {{<<p>> \o rest : rest \in SitesOf(n - 1, budget - Len(p))} :
                   p \in SeqsUpTo(Cards, budget)}
Sites == UNION {SitesOf(n, MaxCards) : n \in 1..MaxPages}

\* ------------------------------------------------------------- variables
VARIABLES
    pc,                   \* position of the run
    AUTH_ENV,             \* environment: AUTH_METHOD
    LINKEDIN_USERNAME,    \* config.LINKEDIN_USERNAME
    LINKEDIN_PASSWORD,    \* config.LINKEDIN_PASSWORD
    DEFAULT_JOB_LOCATION, \* config.DEFAULT_JOB_LOCATION
    fileExists,           \* the session file exists on disk
    browser,              \* browser process: "none", "running", "terminated"
    driver,               \* run_job_automation's local `driver`
    url,                  \* browser's current location
    cookies,              \* login_with_cookies' local `cookies`, <<>> once the
                          \* run has moved on from authenticate
    added,                \* login_with_cookies' local `added`, 0 likewise
    login_frame,          \* LoginPage.login's locals <<login_url, location seen
                          \* by the url-change wait>> once that wait has run,
                          \* <<>> before it and once the run has moved on
    results,              \* result cards in the DOM: "none", "new" (rendered
                          \* for the latest submit / filter click) or "old"
                          \* (rendered before it)
    authResult,           \* what authenticate did: "none", "True", "False", "raised"
    pages,                \* the result pages the site serves for the query
    easy_apply_links,     \* run_job_automation's local `easy_apply_links`
    ops,                  \* browser operations issued by the last handler
    out,                  \* messages printed by the last handler
    exc,                  \* exception in flight in run_job_automation / main
    exitCode              \* main()'s return value, -1 while running

vars == <<pc, AUTH_ENV, LINKEDIN_USERNAME, LINKEDIN_PASSWORD, DEFAULT_JOB_LOCATION,
          fileExists, browser, driver, url, cookies, added, login_frame, results,
          authResult, pages, easy_apply_links, ops, out, exc, exitCode>>

config == <<AUTH_ENV, LINKEDIN_USERNAME, LINKEDIN_PASSWORD, DEFAULT_JOB_LOCATION>>

\* config.AUTH_METHOD = os.getenv("AUTH_METHOD", "cookie").lower()
AUTH_METHOD == Lower(IF AUTH_ENV = Unset THEN Txt_cookie ELSE AUTH_ENV)

Init ==
    /\ pc = "start"
    /\ AUTH_ENV \in AuthEnvValues
    /\ LINKEDIN_USERNAME \in {"", "user"}
    /\ LINKEDIN_PASSWORD \in {"", "secret"}
    /\ DEFAULT_JOB_LOCATION \in {"", "Remote"}
    /\ fileExists \in BOOLEAN
    /\ browser = "none"
    /\ driver = "None"
    /\ url = Url_blank
    /\ cookies = <<>>
    /\ added = 0
    /\ login_frame = <<>>
    /\ results = "none"
    /\ authResult = "none"
    /\ pages = <<>>
    /\ easy_apply_links = <<>>
    /\ ops = <<>>
    /\ out = {}
    /\ exc = "none"
    /\ exitCode = -1

\* -------------------------------------------------- exceptions, try/except
\* `except Exception` of run_job_automation: prints and re-raises; a
\* KeyboardInterrupt is not an Exception and passes it by.
ExceptOut(e) ==
    IF e \in {"none", "KeyboardInterrupt"} THEN {} ELSE {"[ERROR] Automation failed"}

\* ------------------------------------------------------ browser_setup.py
\* pathOk: ChromeDriverManager().install() succeeds; chromeOk: the browser
\* process starts; configOk: implicitly_wait / set_page_load_timeout succeed.
initialize_driver(pathOk, chromeOk, configOk) ==
    IF ~pathOk THEN
        [raised |-> "WebDriverException", browser |-> "none", ops |-> <<>>]
    ELSE IF ~chromeOk THEN
        [raised |-> "WebDriverException", browser |-> "none", ops |-> <<>>]
    ELSE IF ~configOk THEN
        [raised |-> "WebDriverException", browser |-> "running",
         ops |-> <<<<"configure", "timeouts">>>>]
    ELSE
        [raised |-> "none", browser |-> "running",
         ops |-> <<<<"configure", "timeouts">>>>]

\* [STEP 1] driver = initialize_driver()
InitializeDriver ==
    /\ pc = "start"
    /\ \E pathOk, chromeOk, configOk \in BOOLEAN :
          LET r == initialize_driver(pathOk, chromeOk, configOk) IN
            /\ browser' = r.browser
            /\ ops' = r.ops
            /\ out' = ExceptOut(r.raised)
            /\ exc' = r.raised
            /\ IF r.raised = "none"
                  THEN driver' = "WebDriver" /\ pc' = "authenticate"
                  ELSE driver' = driver /\ pc' = "finally"
    /\ UNCHANGED <<config, fileExists, url, cookies, added, login_frame, results,
                   authResult, pages, easy_apply_links, exitCode>>

\* ------------------------------------------------------ cookie_manager.py
\* cookies_exist()
cookies_exist == fileExists

\* Mutant: a missing file is taken for an empty credential set.
load_cookies_from_file_noCheck(exists, parseOk, content) ==
    IF ~exists THEN [raised |-> "none", cookies |-> <<>>]
    ELSE IF ~parseOk THEN [raised |-> "JSONDecodeError", cookies |-> <<>>]
    ELSE [raised |-> "none", cookies |-> content]

\* load_cookies_from_file: exists is os.path.exists at the time of the call,
\* parseOk whether json.load accepts the file, content what it holds.
load_cookies_from_file(exists, parseOk, content) ==
    IF ~exists THEN [raised |-> "FileNotFoundError", cookies |-> <<>>]
    ELSE IF ~parseOk THEN [raised |-> "JSONDecodeError", cookies |-> <<>>]
    ELSE [raised |-> "none", cookies |-> content]

\* cookie.get('domain', '.linkedin.com')
CookieDomain(cookie) ==
    IF cookie.domain = Missing THEN ".linkedin.com" ELSE cookie.domain

\* driver.add_cookie on the site's root page: a cookie of another domain is
\* rejected (InvalidCookieDomainException).
BrowserAccepts(cookie) == CookieDomain(cookie) = ".linkedin.com"

\* cookie['name'], cookie['value'] without KeyError
WellFormed(cookie) == cookie.name # Missing /\ cookie.value # Missing

\* Mutant: the try wraps the loop, so the first bad record ends the batch.
RECURSIVE add_cookies_to_driver_abort(_)
add_cookies_to_driver_abort(cs) ==
    IF cs = <<>> THEN [added |-> 0, ops |-> <<>>, out |-> {}]
    ELSE
        LET cookie == Head(cs)
            rest == add_cookies_to_driver_abort(Tail(cs))
        IN  IF ~WellFormed(cookie) THEN
                [added |-> 0, ops |-> <<>>, out |-> {"[WARNING] Could not add cookie"}]
            ELSE IF ~BrowserAccepts(cookie) THEN
                [added |-> 0, ops |-> <<<<"add_cookie", cookie.name>>>>,
                 out |-> {"[WARNING] Could not add cookie"}]
            ELSE
                [added |-> rest.added + 1,
                 ops |-> <<<<"add_cookie", cookie.name>>>> \o rest.ops,
                 out |-> rest.out]

RECURSIVE add_cookies_to_driver(_)
add_cookies_to_driver(cs) ==
    IF cs = <<>> THEN [added |-> 0, ops |-> <<>>, out |-> {}]
    ELSE
        LET cookie == Head(cs)
            rest == add_cookies_to_driver(Tail(cs))
        IN  IF ~WellFormed(cookie) THEN
                [added |-> rest.added, ops |-> rest.ops,
                 out |-> {"[WARNING] Could not add cookie"} \cup rest.out]
            ELSE IF ~BrowserAccepts(cookie) THEN
                [added |-> rest.added,
                 ops |-> <<<<"add_cookie", cookie.name>>>> \o rest.ops,
                 out |-> {"[WARNING] Could not add cookie"} \cup rest.out]
            ELSE
                [added |-> rest.added + 1,
                 ops |-> <<<<"add_cookie", cookie.name>>>> \o rest.ops,
                 out |-> rest.out]

\* Mutant: the access-denied marker is not looked for.
IsLoginRedirect_loginOnly(current_url) == Contains(current_url, Marker_login)

\* if "/login" in current_url or "/authwall" in current_url
IsLoginRedirect(current_url) ==
    Contains(current_url, Marker_login) \/ Contains(current_url, Marker_authwall)

\* login_with_cookies. before: the location when called; getOk, refreshOk,
\* feedOk: the three navigations succeed; landed: the location read after
\* the request for /feed.
login_with_cookies(before, exists, parseOk, content, getOk, refreshOk, feedOk, landed) ==
    LET file == load_cookies_from_file(exists, parseOk, content)
        inj == add_cookies_to_driver(file.cookies)
        opsGet == <<<<"get", "BASE_URL">>>>
        opsInj == opsGet \o inj.ops
    IN  IF ~getOk THEN
            [ret |-> FALSE, ops |-> opsGet,
             out |-> {"[ERROR] Cookie login failed: WebDriverException"},
             cookies |-> <<>>, added |-> 0, url |-> before]
        ELSE IF file.raised = "FileNotFoundError" THEN
            [ret |-> FALSE, ops |-> opsGet, out |-> {"[ERROR] Cookie file not found"},
             cookies |-> <<>>, added |-> 0, url |-> Url_root]
        ELSE IF file.raised # "none" THEN
            [ret |-> FALSE, ops |-> opsGet,
             out |-> {"[ERROR] Cookie login failed: JSONDecodeError"},
             cookies |-> <<>>, added |-> 0, url |-> Url_root]
        ELSE IF ~refreshOk THEN
            [ret |-> FALSE, ops |-> opsInj \o <<<<"refresh", "">>>>,
             out |-> inj.out \cup {"[ERROR] Cookie login failed: WebDriverException"},
             cookies |-> file.cookies, added |-> inj.added, url |-> Url_root]
        ELSE IF ~feedOk THEN
            [ret |-> FALSE,
             ops |-> opsInj \o <<<<"refresh", "">>, <<"get", "/feed">>>>,
             out |-> inj.out \cup {"[ERROR] Cookie login failed: WebDriverException"},
             cookies |-> file.cookies, added |-> inj.added, url |-> Url_root]
        ELSE IF IsLoginRedirect(landed) THEN
            [ret |-> FALSE,
             ops |-> opsInj \o <<<<"refresh", "">>, <<"get", "/feed">>, <<"current_url", "">>>>,
             out |-> inj.out \cup {"[WARNING] Cookie login failed - redirected to login page"},
             cookies |-> file.cookies, added |-> inj.added, url |-> landed]
        ELSE
            [ret |-> TRUE,
             ops |-> opsInj \o <<<<"refresh", "">>, <<"get", "/feed">>, <<"current_url", "">>>>,
             out |-> inj.out \cup {"[INFO] Cookie login successful!"},
             cookies |-> file.cookies, added |-> inj.added, url |-> landed]

\* --------------------------------------------------------- base_page.py
\* wait_until_visible / wait_until_clickable / wait_until_present: the
\* element is returned when the condition holds within EXPLICIT_WAIT, else
\* TimeoutException.
WaitOp(flavor, locator) == <<<<flavor, locator>>>>

\* Mutant: the wait reports a change whatever it observed.
wait_for_url_change_always(current_url, observed) == TRUE

\* wait_for_url_change: observed is the location at the poll that ends the
\* wait (the baseline itself when the budget ran out).
wait_for_url_change(current_url, observed) == observed # current_url

\* --------------------------------------------------------- login_page.py
\* Mutant: the checkpoint marker is not looked for.
_is_login_successful_loginOnly(current_url) == ~Contains(current_url, Marker_login)

_is_login_successful(current_url) ==
    ~Contains(current_url, Marker_login) /\ ~Contains(current_url, Marker_checkpoint)

\* LoginPage.login. baseline: the location when called; userVisible,
\* passVisible, submitClickable: the three waits succeed; observed: the
\* location seen by wait_for_url_change; final: the location read by
\* _is_login_successful.
login(baseline, userVisible, passVisible, submitClickable, observed, final) ==
    LET o1 == <<<<"current_url", "">>>> \o WaitOp("wait_visible", "USERNAME_INPUT")
        o2 == o1 \o <<<<"clear", "USERNAME_INPUT">>, <<"send_keys", "USERNAME_INPUT">>>>
                 \o WaitOp("wait_visible", "PASSWORD_INPUT")
        o3 == o2 \o <<<<"clear", "PASSWORD_INPUT">>, <<"send_keys", "PASSWORD_INPUT">>>>
                 \o WaitOp("wait_clickable", "LOGIN_BUTTON")
        o4 == o3 \o <<<<"click", "LOGIN_BUTTON">>, <<"current_url", "">>>>
    IN  IF ~userVisible THEN
            [raised |-> "TimeoutException", ret |-> FALSE, ops |-> o1, url |-> baseline]
        ELSE IF ~passVisible THEN
            [raised |-> "TimeoutException", ret |-> FALSE, ops |-> o2, url |-> baseline]
        ELSE IF ~submitClickable THEN
            [raised |-> "TimeoutException", ret |-> FALSE, ops |-> o3, url |-> baseline]
        ELSE IF ~wait_for_url_change(baseline, observed) THEN
            [raised |-> "none", ret |-> FALSE, ops |-> o4, url |-> observed]
        ELSE
            [raised |-> "none", ret |-> _is_login_successful(final),
             ops |-> o4 \o <<<<"current_url", "">>>>, url |-> final]

\* get_error_message: the element's text, or None when the wait times out.
get_error_message(errVisible) ==
    [raised |-> "none",
     ret |-> IF errVisible THEN "error text" ELSE "None",
     ops |-> WaitOp("wait_visible", "ERROR_MESSAGE")]

\* ---------------------------------------------------------------- main.py
\* Mutant: any value but "credentials" selects the cookie strategy.
AuthBranch_fallback(method) ==
    IF method = Txt_credentials THEN "credentials" ELSE "cookie"

\* Mutant: without a session file the cookie method falls back to credentials.
AuthBranch_fileFallback(method) ==
    IF method = Txt_cookie THEN (IF fileExists THEN "cookie" ELSE "credentials")
    ELSE IF method = Txt_credentials THEN "credentials"
    ELSE "invalid"

\* The if / elif / else of authenticate.
AuthBranch(method) ==
    IF method = Txt_cookie THEN "cookie"
    ELSE IF method = Txt_credentials THEN "credentials"
    ELSE "invalid"

\* Mutant: the result of authenticate is ignored.
AuthGate_open(success) == [pc |-> "navigate_to_jobs", exc |-> "none"]

\* [STEP 2] if not authenticate(driver): raise Exception(...)
AuthGate(success) ==
    IF success THEN [pc |-> "navigate_to_jobs", exc |-> "none"]
    ELSE [pc |-> "finally", exc |-> "AuthenticationFailed"]

\* authenticate returned `success` to run_job_automation.
Returned(success) ==
    /\ authResult' = IF success THEN "True" ELSE "False"
    /\ pc' = AuthGate(success).pc
    /\ exc' = AuthGate(success).exc

\* an exception left authenticate
Escaped(e) ==
    /\ authResult' = "raised"
    /\ pc' = "finally"
    /\ exc' = e

\* authenticate, cookie branch, up to the call of login_with_cookies
AuthenticateCookie ==
    /\ pc = "authenticate"
    /\ AuthBranch(AUTH_METHOD) = "cookie"
    /\ ops' = <<>>
    /\ IF ~cookies_exist
          THEN /\ Returned(FALSE)
               /\ out' = {"[ERROR] Cookie file not found"} \cup ExceptOut("AuthenticationFailed")
          ELSE /\ pc' = "login_with_cookies"
               /\ out' = {"[INFO] Using cookie file"}
               /\ UNCHANGED <<authResult, exc>>
    /\ UNCHANGED <<config, fileExists, browser, driver, url, cookies, added,
                   login_frame, results, pages, easy_apply_links, exitCode>>

\* The session file is removed by another process between cookies_exist()
\* and the load.
RemoveCookieFile ==
    /\ pc = "login_with_cookies"
    /\ fileExists
    /\ fileExists' = FALSE
    /\ UNCHANGED <<pc, config, browser, driver, url, cookies, added, login_frame,
                   results, authResult, pages, easy_apply_links, ops, out, exc,
                   exitCode>>

\* return login_with_cookies(driver)
LoginWithCookies ==
    /\ pc = "login_with_cookies"
    /\ \E parseOk, getOk \in BOOLEAN :
          \* cookies = load_cookies_from_file(): the content is read only
          \* from a file that exists and parses
          /\ cookies' \in (IF getOk /\ fileExists /\ parseOk THEN CookieFiles ELSE {<<>>})
          /\ \E refreshOk, feedOk \in BOOLEAN :
             \* the location is read only after both navigations
             \E landed \in (IF refreshOk /\ feedOk THEN Locations ELSE {Url_root}) :
                LET r == login_with_cookies(url, fileExists, parseOk, cookies',
                                            getOk, refreshOk, feedOk, landed)
                IN  /\ Returned(r.ret)
                    /\ ops' = r.ops
                    /\ out' = r.out \cup (IF r.ret THEN {}
                                          ELSE ExceptOut("AuthenticationFailed"))
                    /\ cookies' = r.cookies
                    /\ added' = r.added
                    /\ url' = r.url
    /\ UNCHANGED <<config, fileExists, browser, driver, login_frame, results, pages,
                   easy_apply_links, exitCode>>

\* authenticate, credentials branch
AuthenticateCredentials ==
    /\ pc = "authenticate"
    /\ AuthBranch(AUTH_METHOD) = "credentials"
    /\ IF LINKEDIN_USERNAME = "" \/ LINKEDIN_PASSWORD = "" THEN
          /\ Returned(FALSE)
          /\ ops' = <<>>
          /\ out' = {"[ERROR] LINKEDIN_USERNAME and LINKEDIN_PASSWORD must be set"}
                       \cup ExceptOut("AuthenticationFailed")
          /\ url' = url
          /\ login_frame' = <<>>
       ELSE
          \E navOk, userVisible, passVisible, submitClickable, errVisible \in BOOLEAN :
          \E landing, observed, final \in Locations :
             LET nav == <<<<"get", "/login">>>>
                 r == login(landing, userVisible, passVisible, submitClickable,
                            observed, final)
                 e == get_error_message(errVisible)
             IN  IF ~navOk THEN
                     /\ Escaped("WebDriverException")
                     /\ ops' = nav
                     /\ out' = ExceptOut("WebDriverException")
                     /\ url' = url
                     /\ login_frame' = <<>>
                 ELSE IF r.raised # "none" THEN
                     /\ Escaped(r.raised)
                     /\ ops' = nav \o r.ops
                     /\ out' = ExceptOut(r.raised)
                     /\ url' = r.url
                     /\ login_frame' = <<>>
                 ELSE IF ~r.ret THEN
                     /\ Returned(FALSE)
                     /\ ops' = nav \o r.ops \o e.ops
                     /\ out' = {IF e.ret = "None" THEN "[ERROR] Login failed: Unknown error"
                                                  ELSE "[ERROR] Login failed: error text"}
                                  \cup ExceptOut("AuthenticationFailed")
                     /\ url' = r.url
                     /\ login_frame' = <<landing, observed>>
                 ELSE
                     /\ Returned(TRUE)
                     /\ ops' = nav \o r.ops
                     /\ out' = {"[INFO] Logging in as"}
                     /\ url' = r.url
                     /\ login_frame' = <<landing, observed>>
    /\ UNCHANGED <<config, fileExists, browser, driver, cookies, added, results, pages,
                   easy_apply_links, exitCode>>

\* authenticate, else branch
AuthenticateInvalid ==
    /\ pc = "authenticate"
    /\ AuthBranch(AUTH_METHOD) = "invalid"
    /\ Returned(FALSE)
    /\ ops' = <<>>
    /\ out' = {"[ERROR] Invalid AUTH_METHOD"} \cup ExceptOut("AuthenticationFailed")
    /\ UNCHANGED <<config, fileExists, browser, driver, url, cookies, added,
                   login_frame, results, pages, easy_apply_links, exitCode>>

\* ---------------------------------------------------- job_search_page.py
\* The result list as the presence wait on JOB_CARDS can find it. The locator
\* matches any result card, whichever request rendered it.
\* Landing: the list on the jobs page before any query was submitted.
Landing == {"none", "new"}

\* After a submit or a filter click: the list was replaced ("new"), is not
\* there within the wait ("none"), or still shows what was there ("old").
AfterAction(dom) == {"none", "new"} \cup (IF dom = "none" THEN {} ELSE {"old"})

\* The sites whose first page, the one rendered, has cards, and the others.
SitesWithCards == {s \in Sites : s[1] # <<>>}
SitesWithoutCards == {s \in Sites : s[1] = <<>>}

\* With no further action: a pending render may complete.
Settle(dom) == IF dom = "new" THEN {"new"} ELSE {dom, "new"}

\* _wait_for_job_results: True after the presence wait and the one-second
\* sleep, False when the wait times out.
_wait_for_job_results(present) ==
    [ret |-> present,
     ops |-> WaitOp("wait_present", "JOB_CARDS")
               \o (IF present THEN <<<<"sleep", "1">>>> ELSE <<>>)]

\* Mutant: the location input is filled whatever the location.
search_jobs_alwaysLocation(keyword, location, kwVisible, locVisible, present) ==
    LET o1 == WaitOp("wait_visible", "SEARCH_KEYWORD_INPUT")
        o2 == o1 \o <<<<"clear", "SEARCH_KEYWORD_INPUT">>,
                       <<"send_keys", "SEARCH_KEYWORD_INPUT">>>>
        o3 == o2 \o WaitOp("wait_visible", "SEARCH_LOCATION_INPUT")
        o4 == o3 \o <<<<"clear", "SEARCH_LOCATION_INPUT">>,
                       <<"send_keys", "SEARCH_LOCATION_INPUT">>>>
    IN  IF ~kwVisible THEN
            [raised |-> "TimeoutException", ops |-> o1]
        ELSE IF ~locVisible THEN
            [raised |-> "TimeoutException", ops |-> o3]
        ELSE
            [raised |-> "none",
             ops |-> o4 \o <<<<"send_RETURN", "SEARCH_KEYWORD_INPUT">>>>
                       \o _wait_for_job_results(present).ops]

\* search_jobs. kwVisible, locVisible: the visibility waits succeed;
\* present: result cards are present within the wait.
search_jobs(keyword, location, kwVisible, locVisible, present) ==
    LET o1 == WaitOp("wait_visible", "SEARCH_KEYWORD_INPUT")
        o2 == o1 \o <<<<"clear", "SEARCH_KEYWORD_INPUT">>,
                       <<"send_keys", "SEARCH_KEYWORD_INPUT">>>>
        o3 == o2 \o WaitOp("wait_visible", "SEARCH_LOCATION_INPUT")
        o4 == o3 \o <<<<"clear", "SEARCH_LOCATION_INPUT">>,
                       <<"send_keys", "SEARCH_LOCATION_INPUT">>>>
        filled == IF location # "" THEN o4 ELSE o2
    IN  IF ~kwVisible THEN
            [raised |-> "TimeoutException", ops |-> o1]
        ELSE IF location # "" /\ ~locVisible THEN
            [raised |-> "TimeoutException", ops |-> o3]
        ELSE
            [raised |-> "none",
             ops |-> filled \o <<<<"send_RETURN", "SEARCH_KEYWORD_INPUT">>>>
                       \o _wait_for_job_results(present).ops]

\* Mutant: no try/except around the filter wait.
apply_filters_raise(easy_apply, clickable, clickOk, present) ==
    LET o1 == WaitOp("wait_clickable", "EASY_APPLY_FILTER")
        o2 == o1 \o <<<<"click", "EASY_APPLY_FILTER">>>>
    IN  IF ~easy_apply THEN
            [raised |-> "none", ops |-> <<>>, out |-> {}]
        ELSE IF ~clickable THEN
            [raised |-> "TimeoutException", ops |-> o1, out |-> {}]
        ELSE IF ~clickOk THEN
            [raised |-> "WebDriverException", ops |-> o2, out |-> {}]
        ELSE
            [raised |-> "none", ops |-> o2 \o _wait_for_job_results(present).ops,
             out |-> {"[INFO] Easy Apply filter applied successfully"}]

\* apply_filters(easy_apply=True). clickable: the filter button becomes
\* clickable within the wait; clickOk: the click itself succeeds.
apply_filters(easy_apply, clickable, clickOk, present) ==
    LET o1 == WaitOp("wait_clickable", "EASY_APPLY_FILTER")
        o2 == o1 \o <<<<"click", "EASY_APPLY_FILTER">>>>
    IN  IF ~easy_apply THEN
            [raised |-> "none", ops |-> <<>>, out |-> {}]
        ELSE IF ~clickable THEN
            [raised |-> "none", ops |-> o1,
             out |-> {"[WARNING] Could not apply Easy Apply filter"}]
        ELSE IF ~clickOk THEN
            [raised |-> "none", ops |-> o2,
             out |-> {"[WARNING] Could not apply Easy Apply filter"}]
        ELSE
            [raised |-> "none", ops |-> o2 \o _wait_for_job_results(present).ops,
             out |-> {"[INFO] Easy Apply filter applied successfully"}]

\* get_job_cards: the cards of the rendered page, [] when none is present
\* within the wait.
get_job_cards(rendered) ==
    IF rendered = <<>>
      THEN [cards |-> <<>>, ops |-> WaitOp("wait_present", "JOB_CARDS")]
      ELSE [cards |-> rendered,
            ops |-> WaitOp("wait_present", "JOB_CARDS") \o <<<<"find_elements", "JOB_CARDS">>>>]

\* The body of the for loop of get_easy_apply_job_links for one card.
CardLinks(card) ==
    IF card.badge = "stale" THEN
        [links |-> <<>>, ops |-> <<<<"find_elements", "EASY_APPLY_BADGE">>>>]
    ELSE IF card.badge = "none" THEN
        [links |-> <<>>, ops |-> <<<<"find_elements", "EASY_APPLY_BADGE">>>>]
    ELSE IF card.title = "unlocatable" THEN
        [links |-> <<>>,
         ops |-> <<<<"find_elements", "EASY_APPLY_BADGE">>, <<"find_element", "JOB_TITLE_LINK">>>>]
    ELSE
        [links |-> IF card.title = "nohref" THEN <<>> ELSE <<card.title>>,
         ops |-> <<<<"find_elements", "EASY_APPLY_BADGE">>, <<"find_element", "JOB_TITLE_LINK">>,
                   <<"get_attribute", "href">>>>]

\* Mutant: a card whose lookup throws ends the loop (break for continue).
RECURSIVE ForEachCard_break(_)
ForEachCard_break(cards) ==
    IF cards = <<>> THEN [links |-> <<>>, ops |-> <<>>]
    ELSE LET card == Head(cards)
             one == CardLinks(card)
             threw == card.badge = "stale"
                        \/ (card.badge = "found" /\ card.title = "unlocatable")
             rest == IF threw THEN [links |-> <<>>, ops |-> <<>>]
                     ELSE ForEachCard_break(Tail(cards))
         IN  [links |-> one.links \o rest.links, ops |-> one.ops \o rest.ops]

RECURSIVE ForEachCard(_)
ForEachCard(cards) ==
    IF cards = <<>> THEN [links |-> <<>>, ops |-> <<>>]
    ELSE LET one == CardLinks(Head(cards))
             rest == ForEachCard(Tail(cards))
         IN  [links |-> one.links \o rest.links, ops |-> one.ops \o rest.ops]

\* get_easy_apply_job_links on the rendered page
get_easy_apply_job_links(rendered) ==
    LET found == get_job_cards(rendered)
        loop == ForEachCard(found.cards)
    IN  [links |-> loop.links, ops |-> found.ops \o loop.ops,
         out |-> {"[INFO] Found job cards on page"}]

\* ------------------------------------------------- main.py, steps 3 to 5
\* Mutant: a step that raised is tried again, without a bound.
Raise_retry(e) ==
    /\ pc' = pc
    /\ exc' = exc

\* A step of the try body raised e.
Raise(e) ==
    /\ pc' = "finally"
    /\ exc' = e

\* [STEP 3] job_search_page.navigate_to_jobs()
NavigateToJobs ==
    /\ pc = "navigate_to_jobs"
    /\ ops' = <<<<"get", "/jobs">>>>
    /\ cookies' = <<>>
    /\ added' = 0
    /\ login_frame' = <<>>
    /\ \E navOk \in BOOLEAN :
          IF navOk
            THEN /\ pc' = "search_jobs"
                 /\ url' = Url_jobs
                 /\ out' = {"[STEP 3] Navigating to job search page"}
                 /\ exc' = exc
                 /\ results' \in Landing
            ELSE /\ Raise("WebDriverException")
                 /\ url' = url
                 /\ out' = ExceptOut("WebDriverException")
                 /\ results' = results
    /\ UNCHANGED <<config, fileExists, browser, driver, authResult, pages,
                   easy_apply_links, exitCode>>

\* [STEP 3] job_search_page.search_jobs(keyword, location)
SearchJobs ==
    /\ pc = "search_jobs"
    /\ \E kwVisible, locVisible \in BOOLEAN :
       \E dom \in AfterAction(results) :
          LET r == search_jobs("Software Engineer", DEFAULT_JOB_LOCATION,
                               kwVisible, locVisible, dom # "none")
          IN  /\ ops' = r.ops
              /\ IF r.raised = "none"
                    THEN /\ pc' = "apply_filters"
                         /\ exc' = exc
                         /\ out' = {"[INFO] Searching for"}
                         /\ results' = dom
                    ELSE /\ Raise(r.raised)
                         /\ out' = ExceptOut(r.raised)
                         /\ results' = results
    /\ UNCHANGED <<config, fileExists, browser, driver, url, cookies, added,
                   login_frame, authResult, pages, easy_apply_links, exitCode>>

\* [STEP 4] job_search_page.apply_filters(easy_apply=True)
ApplyFilters ==
    /\ pc = "apply_filters"
    /\ \E clickable, clickOk \in BOOLEAN :
       \E dom \in AfterAction(results) :
          LET r == apply_filters(TRUE, clickable, clickOk, dom # "none")
          IN  /\ ops' = r.ops
              /\ results' = IF clickable /\ clickOk THEN dom ELSE results
              /\ IF r.raised = "none"
                    THEN /\ pc' = "extract"
                         /\ exc' = exc
                         /\ out' = r.out
                    ELSE /\ Raise(r.raised)
                         /\ out' = r.out \cup ExceptOut(r.raised)
    /\ UNCHANGED <<config, fileExists, browser, driver, url, cookies, added,
                   login_frame, authResult, pages, easy_apply_links, exitCode>>

\* [STEP 5] easy_apply_links = get_easy_apply_job_links(); return.
\* The site serves `site`; its first page is the one rendered, and it has
\* cards exactly when the DOM has some. go_to_next_page is never called by
\* the run.
ExtractLinks ==
    /\ pc = "extract"
    /\ \E dom \in Settle(results) :
          /\ results' = dom
          /\ pages' \in (IF dom = "none" THEN SitesWithoutCards ELSE SitesWithCards)
          /\ LET r == get_easy_apply_job_links(pages'[1])
             IN  /\ easy_apply_links' = r.links
                 /\ ops' = r.ops
                 /\ out' = r.out \cup {"[SUCCESS] Found Easy Apply jobs"}
    /\ pc' = "finally"
    /\ UNCHANGED <<config, fileExists, browser, driver, url, cookies, added, login_frame,
                   authResult, exc, exitCode>>

\* Ctrl-C while the try body runs: KeyboardInterrupt is raised in place of
\* the next step.
Interrupt ==
    /\ pc \in {"start", "authenticate", "login_with_cookies", "navigate_to_jobs",
                "search_jobs", "apply_filters", "extract"}
    /\ Raise("KeyboardInterrupt")
    /\ ops' = <<>>
    /\ out' = {}
    /\ UNCHANGED <<config, fileExists, browser, driver, url, cookies, added,
                   login_frame, results, authResult, pages, easy_apply_links, exitCode>>

\* finally: if driver: driver.quit(). quit: "ok", or a fault that leaves the
\* browser process dead or alive. The locals of login_with_cookies and of
\* LoginPage.login are gone, and so is the DOM of a browser that has quit.
Cleanup ==
    /\ pc = "finally"
    /\ pc' = "main"
    /\ IF driver # "None"
          THEN \E quit \in {"ok", "fault_dead", "fault_alive"} :
                 /\ ops' = <<<<"quit", "">>>>
                 /\ browser' = IF quit = "fault_alive" THEN browser ELSE "terminated"
                 /\ out' = IF quit = "ok" THEN {"[CLEANUP] Browser closed successfully"}
                                           ELSE {"[CLEANUP] Warning"}
          ELSE /\ ops' = <<>>
               /\ out' = {}
               /\ browser' = browser
    /\ cookies' = <<>>
    /\ added' = 0
    /\ login_frame' = <<>>
    /\ results' = IF browser' = "terminated" THEN "none" ELSE results
    /\ UNCHANGED <<config, fileExists, driver, url, authResult, pages, easy_apply_links,
                   exc, exitCode>>

\* main(): the exit code
ExitCodeOf(e) ==
    IF e = "none" THEN 0
    ELSE IF e = "KeyboardInterrupt" THEN 130
    ELSE 1

Main ==
    /\ pc = "main"
    /\ pc' = "done"
    /\ exitCode' = ExitCodeOf(exc)
    /\ ops' = <<>>
    /\ out' = {IF exc = "none" THEN "[COMPLETE] Total jobs found"
               ELSE IF exc = "KeyboardInterrupt" THEN "[INFO] Cancelled by user"
               ELSE "[FATAL]"}
    /\ UNCHANGED <<config, fileExists, browser, driver, url, cookies, added,
                   login_frame, results, authResult, pages, easy_apply_links, exc>>

Next ==
    \/ InitializeDriver
    \/ AuthenticateCookie
    \/ RemoveCookieFile
    \/ LoginWithCookies
    \/ AuthenticateCredentials
    \/ AuthenticateInvalid
    \/ NavigateToJobs
    \/ SearchJobs
    \/ ApplyFilters
    \/ ExtractLinks
    \/ Interrupt
    \/ Cleanup
    \/ Main

Spec == Init /\ [][Next]_vars

\* One thread runs the steps in program order; a step that is enabled is
\* taken: every wait is bounded by its timeout and every loop by its list.
FairSpec == Spec /\ WF_vars(Next)

TypeOK ==
    /\ pc \in {"start", "authenticate", "login_with_cookies", "navigate_to_jobs",
                "search_jobs", "apply_filters", "extract", "finally", "main", "done"}
    /\ browser \in {"none", "running", "terminated"}
    /\ driver \in {"None", "WebDriver"}
    /\ authResult \in {"none", "True", "False", "raised"}
    /\ login_frame \in {<<>>} \cup (Locations \X Locations)
    /\ results \in {"none", "old", "new"}
    /\ exitCode \in {-1, 0, 1, 130}

\* ================================================================ claims
HasOp(op) == \E i \in DOMAIN ops : ops[i] = op
Touches(locator) == \E i \in DOMAIN ops : ops[i][2] = locator
CountOps(op) == Cardinality({i \in DOMAIN ops : ops[i] = op})

\* A card qualifies when it bears the badge and its title link has a URL.
Qualifies(card) == card.badge = "found" /\ card.title \in Hrefs
QualifyingLinks(page) ==
    LET q == SelectSeq(page, Qualifies) IN [i \in 1..Len(q) |-> q[i].title]
RECURSIVE AllQualifyingLinks(_)
AllQualifyingLinks(ps) ==
    IF ps = <<>> THEN <<>> ELSE QualifyingLinks(Head(ps)) \o AllQualifyingLinks(Tail(ps))

\* C1: a run over N result pages returns the concatenation of every page's
\* qualifying links in page order, for every N >= 1.
C1_HarvestAllPages ==
    (pc = "done" /\ exitCode = 0) => easy_apply_links = AllQualifyingLinks(pages)

\* C2: on every exit path the cleanup step has terminated the browser when
\* the run leaves run_job_automation; only a fault of the termination itself,
\* reported as a warning, can leave it running.
C2_BrowserTerminatedOnEveryExit ==
    (pc = "main" /\ browser = "running") =>
        (HasOp(<<"quit", "">>) /\ "[CLEANUP] Warning" \in out)

\* C3: cookie-replay authentication with the session file absent (at the
\* existence check, or at the load after it disappeared) returns False and no
\* exception leaves the authenticator.
C3_AbsentFileFails ==
    (AuthBranch(AUTH_METHOD) = "cookie" /\ ~fileExists /\ authResult # "none")
        => authResult = "False"

\* The file disappeared between the check and the load.
C3_Witness ==
    /\ AuthBranch(AUTH_METHOD) = "cookie"
    /\ ~fileExists
    /\ authResult = "False"
    /\ ops = <<<<"get", "BASE_URL">>>>
    /\ "[ERROR] Cookie file not found" \in out

Accepted(cs) == {i \in DOMAIN cs : WellFormed(cs[i]) /\ BrowserAccepts(cs[i])}
Attempted(cs) == {i \in DOMAIN cs : WellFormed(cs[i])}
JustRanLoginWithCookies == ops # <<>> /\ Head(ops) = <<"get", "BASE_URL">>

\* C4: the injected count is the number of well-formed records the browser
\* accepted; every well-formed record is attempted whatever happened to the
\* records before it, and the strategy goes on to verification.
C4_InjectedCount ==
    /\ added = Cardinality(Accepted(cookies))
    /\ (JustRanLoginWithCookies /\ cookies # <<>>) =>
          /\ CountOps(<<"add_cookie", "li_at">>) = Cardinality(Attempted(cookies))
          /\ HasOp(<<"refresh", "">>)

\* Two valid records and one without value: 2 of 3 injected, Authenticated.
C4_Witness ==
    /\ JustRanLoginWithCookies
    /\ Len(cookies) = 3
    /\ Cardinality(Accepted(cookies)) = 2
    /\ \E i \in DOMAIN cookies : cookies[i].value = Missing /\ cookies[i].name # Missing
    /\ cookies[1].value = Missing
    /\ added = 2
    /\ authResult = "True"

HasLoginMarker(u) == Contains(u, Marker_login) \/ Contains(u, Marker_checkpoint)

\* C5: credential login whose post-submit location contains "/login" or
\* "/checkpoint" yields Failed, with or without the error-message element.
C5_MarkerMeansFailed ==
    (AuthBranch(AUTH_METHOD) = "credentials" /\ HasOp(<<"click", "LOGIN_BUTTON">>)
       /\ HasLoginMarker(url))
        => (authResult = "False" /\ exc = "AuthenticationFailed")

\* Location changed to a checkpoint page, error element absent.
C5_Witness ==
    /\ HasOp(<<"click", "LOGIN_BUTTON">>)
    /\ url = Url_checkpoint
    /\ authResult = "False"
    /\ HasOp(<<"wait_visible", "ERROR_MESSAGE">>)
    /\ "[ERROR] Login failed: Unknown error" \in out

JobLocators ==
    {"/jobs", "SEARCH_KEYWORD_INPUT", "SEARCH_LOCATION_INPUT", "SEARCH_BUTTON", "JOB_CARDS",
     "EASY_APPLY_FILTER", "EASY_APPLY_BADGE", "JOB_TITLE_LINK", "href", "NEXT_PAGE_BUTTON"}

\* C6: job-page navigation, query submission, filter toggle and extraction
\* happen only after authenticate returned True; after a Failed outcome the
\* only browser operation left is the quit of the cleanup.
C6_AuthGates ==
    /\ (\E l \in JobLocators : Touches(l)) => authResult = "True"
    /\ (authResult = "False" /\ pc \in {"main", "done"})
          => ops \in {<<>>, <<<<"quit", "">>>>}
    /\ (authResult = "False") => pc \in {"finally", "main", "done"}

C6_Witness ==
    /\ authResult = "False"
    /\ pc = "main"
    /\ ops = <<<<"quit", "">>>>

\* C7: a config.AUTH_METHOD other than "cookie" and "credentials" yields
\* Failed and authenticate issues no browser operation.
C7_InvalidMethodNoBrowser ==
    (AUTH_METHOD \notin {Txt_cookie, Txt_credentials} /\ pc \notin {"start", "authenticate"}
       /\ exc # "KeyboardInterrupt" /\ driver # "None")
        => /\ authResult = "False"
           /\ pc = "finally" => ops = <<>>
           /\ ops \in {<<>>, <<<<"quit", "">>>>}

C7_Witness ==
    /\ AUTH_METHOD = Txt_oauth
    /\ authResult = "False"
    /\ pc = "finally"
    /\ ops = <<>>
    /\ "[ERROR] Invalid AUTH_METHOD" \in out

JustRanExtract == pc = "finally" /\ pages # <<>>

\* C8: the links read from the page are the title URLs of the cards that
\* bear the badge and have a readable link, in card order; every card is
\* looked at whatever happened to the cards before it.
C8_PageLinks ==
    /\ pages # <<>> => easy_apply_links = QualifyingLinks(pages[1])
    /\ JustRanExtract =>
          CountOps(<<"find_elements", "EASY_APPLY_BADGE">>) = Len(pages[1])

\* A badge-bearing card with an unlocatable title, then a qualifying card.
C8_Witness ==
    /\ JustRanExtract
    /\ Len(pages[1]) = 2
    /\ pages[1][1].badge = "found" /\ pages[1][1].title = "unlocatable"
    /\ Qualifies(pages[1][2])
    /\ easy_apply_links = <<pages[1][2].title>>

FilterTimedOut == ops = <<<<"wait_clickable", "EASY_APPLY_FILTER">>>>

\* C9: when the filter control does not become clickable the timeout is
\* absorbed: a warning is printed and the run goes on to extraction with no
\* exception in flight.
C9_FilterTimeoutAbsorbed ==
    FilterTimedOut =>
        /\ pc = "extract"
        /\ exc = "none"
        /\ "[WARNING] Could not apply Easy Apply filter" \in out

C9_Witness ==
    /\ FilterTimedOut
    /\ pc = "extract"
    /\ out = {"[WARNING] Could not apply Easy Apply filter"}

JustRanSearchJobs == ops # <<>> /\ Head(ops) = <<"wait_visible", "SEARCH_KEYWORD_INPUT">>
Submit == <<"send_RETURN", "SEARCH_KEYWORD_INPUT">>
Before(a, b) == \E i, j \in DOMAIN ops : i < j /\ ops[i] = a /\ ops[j] = b

\* C10: with an empty location the location input is never touched; the
\* query is submitted by the confirm keystroke on the keyword field, after
\* the keyword (and a non-empty location) was typed, never by the button.
C10_SubmitByKeystroke ==
    JustRanSearchJobs =>
        /\ DEFAULT_JOB_LOCATION = "" => ~Touches("SEARCH_LOCATION_INPUT")
        /\ ~Touches("SEARCH_BUTTON")
        /\ pc = "apply_filters" => CountOps(Submit) = 1
        /\ HasOp(Submit) =>
              /\ Before(<<"send_keys", "SEARCH_KEYWORD_INPUT">>, Submit)
              /\ DEFAULT_JOB_LOCATION # "" =>
                    Before(<<"send_keys", "SEARCH_LOCATION_INPUT">>, Submit)

C10_Witness ==
    /\ JustRanSearchJobs
    /\ DEFAULT_JOB_LOCATION = ""
    /\ pc = "apply_filters"
    /\ HasOp(Submit)

LastOp == IF ops = <<>> THEN <<"", "">> ELSE ops[Len(ops)]
LoginFormTimedOut ==
    LastOp \in {<<"wait_visible", "USERNAME_INPUT">>, <<"wait_visible", "PASSWORD_INPUT">>}

\* C11: in the credential-login strategy a username or password field that
\* is not located within the visibility wait gives the Failed outcome
\* (authenticate returns False), not an exception leaving authenticate.
C11_FormNotFoundFails ==
    LoginFormTimedOut => authResult = "False"

CookieOps == {<<"get", "BASE_URL">>, <<"add_cookie", "li_at">>, <<"refresh", "">>,
              <<"get", "/feed">>}
CredentialLocators ==
    {"/login", "USERNAME_INPUT", "PASSWORD_INPUT", "LOGIN_BUTTON", "ERROR_MESSAGE"}
UsesCookieStrategy == \E o \in CookieOps : HasOp(o)
UsesCredentialStrategy == \E l \in CredentialLocators : Touches(l)

\* C12: one strategy per run, the one the configuration selects, and one
\* outcome: the operations of the cookie strategy are issued only under
\* method "cookie", those of the credential strategy only under method
\* "credentials", the method does not change during the run, and an outcome
\* once produced is never replaced (no second attempt, no fallback).
C12_OneStrategyOneOutcome ==
    /\ [](UsesCookieStrategy => AUTH_METHOD = Txt_cookie)
    /\ [](UsesCredentialStrategy => AUTH_METHOD = Txt_credentials)
    /\ [][AUTH_ENV' = AUTH_ENV]_vars
    /\ [][authResult # "none" => authResult' = authResult]_vars

\* The cookie strategy failed although credentials were configured: the run
\* is on its way to cleanup.
C12_Witness ==
    /\ AUTH_METHOD = Txt_cookie
    /\ LINKEDIN_USERNAME # "" /\ LINKEDIN_PASSWORD # ""
    /\ JustRanLoginWithCookies
    /\ authResult = "False"
    /\ pc = "finally"

LoadFailed ==
    out \cap {"[ERROR] Cookie file not found",
              "[ERROR] Cookie login failed: JSONDecodeError"} # {}

\* C13: when the session file is missing or cannot be parsed the cookie
\* strategy fails with no navigation and no cookie injection issued before.
C13_LoadBeforeBrowser ==
    (AUTH_METHOD = Txt_cookie /\ authResult = "False" /\ pc = "finally" /\ LoadFailed)
        => ops = <<>>

\* C14: cookie replay returns Authenticated exactly when the reload and the
\* request for /feed were issued without a fault and the location read then
\* holds neither "/login" nor "/authwall"; the injected count plays no part.
C14_CookieVerification ==
    (JustRanLoginWithCookies /\ authResult # "none") =>
        /\ authResult \in {"True", "False"}
        /\ authResult = "True" <=>
              /\ Before(<<"refresh", "">>, <<"get", "/feed">>)
              /\ LastOp = <<"current_url", "">>
              /\ ~Contains(url, Marker_login)
              /\ ~Contains(url, Marker_authwall)

\* Authenticated with records in the file and none injected.
C14_Witness ==
    /\ JustRanLoginWithCookies
    /\ authResult = "True"
    /\ Len(cookies) >= 1
    /\ added = 0

UrlWaitRan == login_frame # <<>>

\* C15: in the credential strategy, when the location seen by the wait after
\* submit equals the baseline read before the credentials were typed the
\* outcome is False; True needs an observed change and a location, read
\* afterwards, with neither "/login" nor "/checkpoint"; the wait never raises.
C15_NoNavigationFails ==
    UrlWaitRan =>
        /\ authResult \in {"True", "False"}
        /\ login_frame[2] = login_frame[1] => authResult = "False"
        /\ authResult = "True" =>
              (login_frame[2] # login_frame[1] /\ ~HasLoginMarker(url))

C15_Witness ==
    /\ UrlWaitRan
    /\ HasOp(<<"click", "LOGIN_BUTTON">>)
    /\ login_frame[2] = login_frame[1]
    /\ authResult = "False"

\* C16: the cards that extraction reads were rendered for the latest submit
\* or filter click: a results wait that timed out, or that was satisfied by
\* cards already there before the action, does not let extraction read a
\* list the action has not replaced.
C16_ExtractionAfterConfirmedEffect ==
    (JustRanExtract /\ pages[1] # <<>>) => results = "new"

\* C17: once authenticate has returned True, a run that was not interrupted
\* and whose browser did not fail ends with exit code 0: every element
\* timeout of the search, filter and extraction steps is absorbed.
C17_TimeoutsAbsorbedAfterAuth ==
    (pc = "done" /\ authResult = "True"
                /\ exc \notin {"KeyboardInterrupt", "WebDriverException"})
        => exitCode = 0

\* Messages of warning level or above.
WarningLevel ==
    {"[WARNING] Could not add cookie",
     "[WARNING] Cookie login failed - redirected to login page",
     "[WARNING] Could not apply Easy Apply filter",
     "[CLEANUP] Warning",
     "[ERROR] Login failed: Unknown error",
     "[ERROR] Login failed: error text",
     "[ERROR] Cookie file not found",
     "[ERROR] Cookie login failed: WebDriverException",
     "[ERROR] Cookie login failed: JSONDecodeError"}

ResultsWaitTimedOut ==
    pc \in {"apply_filters", "extract"} /\ LastOp = <<"wait_present", "JOB_CARDS">>
NoCardsPresent == JustRanExtract /\ pages[1] = <<>>
CardSkipped ==
    JustRanExtract /\ \E i \in DOMAIN pages[1] :
        \/ pages[1][i].badge = "stale"
        \/ (pages[1][i].badge = "found" /\ pages[1][i].title = "unlocatable")
CookieRejected == JustRanLoginWithCookies /\ added < Len(cookies)
FilterAbsent == pc = "extract" /\ FilterTimedOut
ErrorMessageAbsent ==
    authResult = "False" /\ LastOp = <<"wait_visible", "ERROR_MESSAGE">>
        /\ "[ERROR] Login failed: Unknown error" \in out
AbsorbedFailure ==
    \/ ResultsWaitTimedOut
    \/ NoCardsPresent
    \/ CardSkipped
    \/ CookieRejected
    \/ FilterAbsent
    \/ ErrorMessageAbsent

\* C18: a step that absorbed a failure (results wait timed out, no card
\* present, a card skipped, a cookie record rejected, the filter absent, the
\* error-message element absent) printed a message of warning level.
C18_AbsorbedFailuresWarn == AbsorbedFailure => out \cap WarningLevel # {}

\* C19: every run reaches the end of main, through the finally block, with
\* exit code 0 when no exception is in flight, 130 on KeyboardInterrupt and
\* 1 otherwise; no step repeats without bound.
C19_RunTerminates ==
    /\ <>(pc = "done")
    /\ [][pc' = "done" => pc = "main"]_vars
    /\ [][pc' = "main" => pc = "finally"]_vars
    /\ [](pc = "done" =>
            /\ exitCode \in {0, 1, 130}
            /\ exitCode = 0 <=> exc = "none"
            /\ exitCode = 130 <=> exc = "KeyboardInterrupt")

C19_Witness == pc = "done" /\ exitCode = 130 /\ browser = "terminated"


====
